---- MODULE Spec2Model ----
(***************************************************************************)
(* PulseBoard: the audio engine (src/audio/audio_engine.py), the recording *)
(* service above it (src/application/recording_service.py), the effects    *)
(* and the trimmer (src/audio/effects, src/audio/editors), the Soundboard  *)
(* (src/domain) and the handlers of src/application/soundboard_service.py. *)
(*                                                                         *)
(* The engine keeps a dictionary of pygame Sound objects, hands playback   *)
(* to the pygame mixer (a fixed set of channels) and capture to one        *)
(* sounddevice InputStream whose callback runs on the device thread.       *)
(***************************************************************************)
EXTENDS Integers, Sequences, FiniteSets, Bags, TLC

(* ------------------------------ bounds -------------------------------- *)

\* Mixer channels of the model (pygame's default mixer has 8).
NumChannels == 2
\* Blocks a capture buffer may hold before the device stops delivering.
MaxBlocks == 2
\* InputStream objects that may be alive at once.
MaxStreams == 2

ClipIds == {"a", "b"}
StreamIds == 1..MaxStreams

\* Arguments the callers pass.  Volumes are in percent (1.0 is 100).
LoopArgs == {0, -1}
VolumeArgs == {-50, 50, 150}
DefaultVolume == 100
Rates == {44100, 48000}
Paths == {"out.wav"}
Categories == {"cat"}
RecIds == {"r1", "r2"}
\* Blocks of frames the device delivers to the callback.
Blocks == {<<1>>, <<2, 1>>}

NotLoaded == [loaded |-> FALSE, vol |-> 0]
NoStream == 0
NoFile == [state |-> "absent", data |-> <<>>, rate |-> 0]
None == "None"

\* An audio buffer (a numpy array of frames) is kept as what decides the
\* code's behaviour: n frames of chans channels, being the frames from index
\* lo on of what is left after the effects of src, in that order, were
\* applied to the decoded original.
Original(n, chans) == [n |-> n, chans |-> chans, lo |-> 0, src |-> <<>>]
NoBuffer == [n |-> 0, chans |-> 0, lo |-> 0, src |-> <<>>]
\* An audio file on disk, and no file.
AudioFile(buf, rate) == [state |-> "complete", buf |-> buf, rate |-> rate]
NoAudio == [state |-> "absent", buf |-> NoBuffer, rate |-> 0]
NoDsp == [input |-> NoAudio, output |-> NoAudio, chain |-> <<>>, applied |-> <<>>]

\* The Soundboard keeps _sounds, id -> Sound, and _categories, name -> list
\* of ids.  A Sound is kept as its category, its hotkey, its volume (in
\* percent), its file (the name parts of the file's stem) and the names of
\* the effects applied to it.
BoardCategories == {"cat", "fx"}
Hotkeys == {"", "a", "A"}
NoSound == [present |-> FALSE, category |-> "-", hotkey |-> "", volume |-> 0,
            file_path |-> <<>>, effects |-> <<>>]
NoCategory == [exists |-> FALSE, ids |-> <<>>]
\* Soundboard()
NewBoard == [sounds |-> [id \in ClipIds |-> NoSound],
             categories |-> [c \in BoardCategories |-> NoCategory]]

VARIABLES
    playing_sounds,     \* _playing_sounds: clip id -> its Sound object (with its volume), or NotLoaded
    channels,           \* the mixer's busy channels: a bag of what they play
    mixer_init,         \* pygame.mixer is initialised
    recording_stream,   \* _recording_stream: a stream id or NoStream
    recording_buffer,   \* _recording_buffer: sequence of blocks
    recording_active,   \* _recording_active
    stream_open,        \* InputStreams that are started and not yet stopped
    stream_rate,        \* samplerate each InputStream was constructed with
    stream_closed,      \* InputStreams the engine still holds after close() was called on them
    reclosed,           \* stop() and close() were called on an InputStream already closed
    in_flight,          \* the block of a callback that passed its test and has not appended yet
    files,              \* the file system: path -> content
    delivered,          \* blocks handed to the callback since start_recording returned
    pc,                 \* position of the caller's thread
    current_category,   \* RecordingService._current_category
    current_recording_id, \* RecordingService._current_recording_id
    dirs,               \* category folders the storage collaborator created
    sound_loop,         \* Sound.loop of the board's Sound for each clip id
    board,              \* the Soundboard: _sounds and _categories
    dsp,                \* offline processing: the input and the output file, the effect chain
                        \* being built, the chain the last apply_effects was called with
                        \* (until the next chain is begun)
    last                \* the call that returned last, and its outcome

vars == <<playing_sounds, channels, mixer_init, recording_stream,
          recording_buffer, recording_active, stream_open, stream_rate,
          stream_closed, reclosed, in_flight, files,
          delivered, pc, current_category, current_recording_id, dirs, sound_loop, board, dsp, last>>

playVars == <<playing_sounds, channels>>
recVars == <<recording_stream, recording_buffer, recording_active, stream_open,
             stream_rate, stream_closed, reclosed, in_flight, delivered>>
svcVars == <<current_category, current_recording_id, dirs, sound_loop, board, dsp>>

Idle == [at |-> "idle", path |-> "-", via |-> "-"]
\* The process has died inside the audio library.
Crashed == [at |-> "crashed", path |-> "-", via |-> "-"]
\* No callback is between its test and its append.
NoBlock == <<>>

\* The record of a call that has returned; seq alternates so that every
\* return is visible, also of two equal calls in a row.
Returned(op, id, res) ==
    [op |-> op, id |-> id, res |-> res, value |-> None, seq |-> 1 - last.seq]
\* The same for a call whose return value is looked at.
ReturnedValue(op, id, res, value) == [Returned(op, id, res) EXCEPT !.value = value]

(* --------------------------- pygame mixer ------------------------------ *)
(* A busy channel plays one Sound object.  The engine never looks at      *)
(* channel numbers, so the busy channels are kept as a bag of entries      *)
(*   [id, stale, vol, loops]                                               *)
(* id: the clip id the Sound was decoded for; stale: the Sound is no       *)
(* longer the one _playing_sounds[id] holds (load_sound replaced it or     *)
(* unload_sound deleted it while the channel kept its own reference), and  *)
(* then vol is the volume that object keeps for good; a channel playing    *)
(* the dictionary's object has the volume stored there (vol is 0 here).    *)
(***************************************************************************)

Entry(id, loops) == [id |-> id, stale |-> FALSE, vol |-> 0, loops |-> loops]

\* Number of busy channels.
BusyCount == BagCardinality(channels)

\* Voices of clip id: the busy channels playing any Sound decoded for id.
Voices(id) == BagCardinality([e \in {x \in DOMAIN channels : x.id = id} |-> channels[e]])

\* pygame.mixer.get_busy()
get_busy == BusyCount > 0

\* Sound.set_volume: negative values are ignored, values above 1.0 clamp.
SetVolume(old, v) == IF v < 0 THEN old ELSE IF v > 100 THEN 100 ELSE v

\* Sound.play picks a free channel; with none free nothing is played.
SoundPlay(chs, id, loops) ==
    IF BagCardinality(chs) >= NumChannels THEN chs
    ELSE chs (+) SetToBag({Entry(id, loops)})

\* (variant: every channel is halted)
HaltSoundAndOthers(chs, id) == EmptyBag

\* Sound.stop() of the dictionary's Sound for id: halt every channel playing it.
HaltSound(chs, id) ==
    [e \in {x \in DOMAIN chs : ~(x.id = id /\ ~x.stale)} |-> chs[e]]

\* (variant: dropping the Sound halts its channels)
OrphanHalted(chs, id, vol) == HaltSound(chs, id)

\* The dictionary drops its Sound for id (whose volume is vol): the channels
\* playing it keep the object alive and go on playing it.
Orphan(chs, id, vol) ==
    LET f(e) == IF e.id = id /\ ~e.stale THEN [e EXCEPT !.stale = TRUE, !.vol = vol] ELSE e
        count(e) == IF e \in DOMAIN chs THEN chs[e] ELSE 0
    IN [e2 \in {f(e) : e \in DOMAIN chs} |->
           IF e2.id = id /\ e2.stale /\ e2.vol = vol
           THEN count(e2) + count(Entry(id, e2.loops))
           ELSE count(e2)]

(* ----------------------------- AudioEngine ----------------------------- *)

InitEngine ==
    /\ playing_sounds = [id \in ClipIds |-> NotLoaded]
    /\ channels = EmptyBag
    /\ mixer_init = TRUE
    /\ recording_stream = NoStream
    /\ recording_buffer = <<>>
    /\ recording_active = FALSE
    /\ stream_open = {}
    /\ stream_rate = [s \in StreamIds |-> 0]
    /\ stream_closed = {}
    /\ reclosed = FALSE
    /\ in_flight = NoBlock
    /\ files = [p \in Paths |-> NoFile]
    /\ delivered = <<>>
    /\ pc = Idle
    /\ current_category = None
    /\ current_recording_id = None
    /\ dirs = {}
    /\ sound_loop = [id \in ClipIds |-> FALSE]
    /\ last = [op |-> "init", id |-> "-", res |-> "ok", value |-> None, seq |-> 0]

Init == InitEngine /\ dsp = NoDsp /\ board = NewBoard

\* load_sound(sound_id, file_path); decodes: pygame can decode the file.
load_sound(id, decodes) ==
    /\ pc = Idle
    /\ IF mixer_init /\ decodes
       THEN /\ playing_sounds' = [playing_sounds EXCEPT
                                     ![id] = [loaded |-> TRUE, vol |-> DefaultVolume]]
            /\ channels' = Orphan(channels, id, playing_sounds[id].vol)
            /\ last' = Returned("load_sound", id, "ok")
       ELSE /\ UNCHANGED <<playing_sounds, channels>>
            /\ last' = Returned("load_sound", id, "RuntimeError")
    /\ UNCHANGED <<mixer_init, files, pc>>
    /\ UNCHANGED recVars
    /\ UNCHANGED svcVars

\* (variant: every id counts as loaded)
has_soundAlways(id) == TRUE

\* sound_id in self._playing_sounds, as play tests it.
has_sound(id) == playing_sounds[id].loaded

\* play(sound_id, volume, loops)
play(id, volume, loops) ==
    /\ pc = Idle
    /\ IF ~has_sound(id)
       THEN /\ UNCHANGED <<playing_sounds, channels>>
            /\ last' = Returned("play", id, "ValueError")
       ELSE IF ~mixer_init
       THEN /\ UNCHANGED <<playing_sounds, channels>>
            /\ last' = Returned("play", id, "pygame.error")
       ELSE /\ playing_sounds' = [playing_sounds EXCEPT ![id].vol = SetVolume(@, volume)]
            /\ channels' = SoundPlay(channels, id, loops)
            /\ last' = Returned("play", id, "ok")
    /\ UNCHANGED <<mixer_init, files, pc>>
    /\ UNCHANGED recVars
    /\ UNCHANGED svcVars

\* What stop(sound_id) raises or returns, and the channels it leaves.
StopOutcome(id) ==
    IF playing_sounds[id].loaded /\ ~mixer_init THEN "pygame.error" ELSE "ok"

AfterStop(chs, id) ==
    IF playing_sounds[id].loaded /\ mixer_init THEN HaltSound(chs, id) ELSE chs

\* stop(sound_id)
stop(id) ==
    /\ pc = Idle
    /\ channels' = AfterStop(channels, id)
    /\ last' = Returned("stop", id, StopOutcome(id))
    /\ UNCHANGED <<playing_sounds, mixer_init, files, pc>>
    /\ UNCHANGED recVars
    /\ UNCHANGED svcVars

\* (variant: Voices that loop are left alone)
HaltAllButLooping(chs) == [e \in {x \in DOMAIN chs : x.loops = -1} |-> chs[e]]

\* pygame.mixer.stop(): every channel is halted.
HaltAll(chs) == EmptyBag

\* stop_all()
stop_all ==
    /\ pc = Idle
    /\ IF mixer_init
       THEN /\ channels' = HaltAll(channels)
            /\ last' = Returned("stop_all", "-", "ok")
       ELSE /\ UNCHANGED channels
            /\ last' = Returned("stop_all", "-", "pygame.error")
    /\ UNCHANGED <<playing_sounds, mixer_init, files, pc>>
    /\ UNCHANGED recVars
    /\ UNCHANGED svcVars

\* is_playing(sound_id)
is_playing(id) == IF ~playing_sounds[id].loaded THEN FALSE ELSE get_busy

\* unload_sound(sound_id)
unload_sound(id) ==
    /\ pc = Idle
    /\ IF ~playing_sounds[id].loaded
       THEN /\ UNCHANGED <<playing_sounds, channels>>
            /\ last' = Returned("unload_sound", id, "ok")
       ELSE IF ~mixer_init
       THEN /\ UNCHANGED <<playing_sounds, channels>>
            /\ last' = Returned("unload_sound", id, "pygame.error")
       ELSE /\ channels' = HaltSound(channels, id)
            /\ playing_sounds' = [playing_sounds EXCEPT ![id] = NotLoaded]
            /\ last' = Returned("unload_sound", id, "ok")
    /\ UNCHANGED <<mixer_init, files, pc>>
    /\ UNCHANGED recVars
    /\ UNCHANGED svcVars

\* The mixer reaches the end of a Sound that was not played with loops = -1.
VoiceEnds(e) ==
    /\ BagIn(e, channels)
    /\ e.loops # -1
    /\ channels' = channels (-) SetToBag({e})
    /\ UNCHANGED <<playing_sounds, mixer_init, files, pc, last>>
    /\ UNCHANGED recVars
    /\ UNCHANGED svcVars

(* ------------------------------ recording ------------------------------ *)

AlreadyRecordingError == "RuntimeError: Recording already active"
NotRecordingError == "RuntimeError: No recording active"
EmptyRecordingError == "RuntimeError: No audio data recorded"

\* (variant: the flag is not consulted)
is_recordingAlways == TRUE

\* is_recording()
is_recording == recording_active

\* sd.InputStream(...): a stream object that is none of the live ones.
FreeStreams == {s \in StreamIds : s \notin stream_open /\ s # recording_stream}
NewStream == CHOOSE s \in FreeStreams : \A o \in FreeStreams : s <= o

\* What start_recording(samplerate=rate) raises or returns.
\* (variant: the guard is missing)
StartRefusedNever == FALSE

\* The guard of start_recording.
StartRefused == recording_active

\* What the device does with the new InputStream: it runs ("ok"), its
\* construction fails, or it is constructed and start() fails.
Devices == {"ok", "open_fails", "start_fails"}

StartResult(dev) ==
    IF StartRefused THEN AlreadyRecordingError
    ELSE IF dev = "ok" THEN "ok" ELSE "PortAudioError"

\* (variant: the buffer is left as the recording before left it)
NewBufferKept(buf) == buf

\* self._recording_buffer = []
NewBuffer(buf) == <<>>

\* What start_recording does to the engine.
EngineStart(rate, dev) ==
    IF StartRefused
    THEN UNCHANGED recVars
    ELSE /\ recording_buffer' = NewBuffer(recording_buffer)
         /\ recording_active' = TRUE
         /\ delivered' = <<>>
         /\ UNCHANGED <<reclosed, in_flight>>
         /\ IF dev = "open_fails"
            THEN UNCHANGED <<recording_stream, stream_open, stream_rate, stream_closed>>
            ELSE /\ FreeStreams # {}
                 /\ recording_stream' = NewStream
                 /\ stream_rate' = [stream_rate EXCEPT ![NewStream] = rate]
                 /\ stream_open' = IF dev = "ok" THEN stream_open \cup {NewStream}
                                   ELSE stream_open
                 /\ stream_closed' = stream_closed \ {recording_stream}

\* start_recording(device_id, samplerate, channels)
start_recording(rate, dev) ==
    /\ pc = Idle
    /\ EngineStart(rate, dev)
    /\ last' = Returned("start_recording", "-", StartResult(dev))
    /\ UNCHANGED <<mixer_init, files, pc>>
    /\ UNCHANGED playVars
    /\ UNCHANGED svcVars

\* (variant: the block is put in front)
AppendBlockFront(buf, blk) == <<blk>> \o buf

\* The callback's append of indata.copy() to the buffer.
AppendBlock(buf, blk) == Append(buf, blk)

\* (variant: the callback does not look at the flag)
CallbackAcceptsAlways == TRUE

\* The callback's test: the block is kept while the recording is active.
CallbackAccepts == recording_active

\* The InputStream s calls callback(indata, ...) on the device thread, one
\* call at a time: the test of the flag.  The caller's thread may run between
\* the test and the append.
callback(s, blk) ==
    /\ s \in stream_open
    /\ pc # Crashed
    /\ in_flight = NoBlock
    /\ Len(recording_buffer) < MaxBlocks
    /\ Len(delivered) < MaxBlocks
    /\ in_flight' = IF CallbackAccepts THEN blk ELSE NoBlock
    /\ delivered' = IF pc = Idle THEN Append(delivered, blk) ELSE delivered
    /\ UNCHANGED <<recording_stream, recording_buffer, recording_active, stream_open,
                   stream_rate, stream_closed, reclosed, mixer_init, files, pc, last>>
    /\ UNCHANGED playVars
    /\ UNCHANGED svcVars

\* The callback that passed its test appends its block and returns.
callback_append ==
    /\ in_flight # NoBlock
    /\ recording_buffer' = AppendBlock(recording_buffer, in_flight)
    /\ in_flight' = NoBlock
    /\ UNCHANGED <<recording_stream, recording_active, stream_open, stream_rate,
                   stream_closed, reclosed, delivered, mixer_init, files, pc, last>>
    /\ UNCHANGED playVars
    /\ UNCHANGED svcVars

\* np.concatenate(blocks, axis=0): the frames of the blocks, in list order.
concatenate(blocks) ==
    LET cat[i \in 0..Len(blocks)] == IF i = 0 THEN <<>> ELSE cat[i - 1] \o blocks[i]
    IN cat[Len(blocks)]

\* The sample rate stop_recording hands to sf.write.
EncodeRate(stream) == 44100

\* stop_recording(output_path), up to the deactivation of the recording.
stop_recording_begin(path) ==
    /\ pc = Idle
    /\ IF ~recording_active
       THEN /\ last' = Returned("stop_recording", path, NotRecordingError)
            /\ UNCHANGED <<recording_active, pc>>
       ELSE /\ recording_active' = FALSE
            /\ pc' = [at |-> "stop_recording", path |-> path, via |-> "engine"]
            /\ UNCHANGED last
    /\ UNCHANGED <<recording_stream, recording_buffer, stream_open, stream_rate,
                   stream_closed, reclosed, in_flight, delivered, mixer_init, files>>
    /\ UNCHANGED playVars
    /\ UNCHANGED svcVars

\* What stop() and close() do on an InputStream that was closed before: the
\* PortAudio stream behind it is freed, and the library either finds that out
\* and returns an error, which sounddevice ignores, or the process dies.
UseAfterClose == {"ignored", "crash"}

\* self._recording_stream.stop(); .close() on the stream the engine holds.
\* stop() returns once a callback that is running has returned.
StopAndClose ==
    /\ in_flight = NoBlock
    /\ stream_open' = stream_open \ {recording_stream}
    /\ reclosed' = (reclosed \/ recording_stream \in stream_closed)
    /\ UNCHANGED in_flight

\* The process dies in stop() or close() of a closed stream.
Crash ==
    /\ in_flight = NoBlock
    /\ pc' = Crashed
    /\ reclosed' = TRUE
    /\ UNCHANGED <<recording_stream, recording_buffer, recording_active, stream_open,
                   stream_rate, stream_closed, in_flight, delivered, mixer_init,
                   files, last>>
    /\ UNCHANGED playVars
    /\ UNCHANGED svcVars

\* stop_recording(output_path): the stream is stopped, closed and let go.
stop_recording_stream(ub) ==
    /\ pc.at = "stop_recording"
    /\ IF recording_stream # NoStream /\ recording_stream \in stream_closed /\ ub = "crash"
       THEN Crash
       ELSE /\ IF recording_stream # NoStream
               THEN /\ StopAndClose
                    /\ stream_closed' = stream_closed \ {recording_stream}
                    /\ recording_stream' = NoStream
               ELSE UNCHANGED <<recording_stream, stream_open, stream_closed,
                                reclosed, in_flight>>
            /\ pc' = [pc EXCEPT !.at = "stop_recording_read"]
            /\ UNCHANGED <<recording_buffer, recording_active, stream_rate, delivered,
                           mixer_init, files, last>>
            /\ UNCHANGED playVars
            /\ UNCHANGED svcVars

\* The file sf.write leaves at a path: enc is "ok", or the write fails on
\* opening the file (nothing is touched) or part-way through.
Written(old, data, rate, enc) ==
    CASE enc = "ok" -> [state |-> "complete", data |-> data, rate |-> rate]
      [] enc = "open_fails" -> old
      [] enc = "write_fails" -> [state |-> "partial", data |-> <<>>, rate |-> rate]

\* (variant: the test is missing)
NothingRecordedNever(buf) == FALSE

\* The test for a recording without data.
NothingRecorded(buf) == buf = <<>>

\* (variant: the buffer is not cleared)
AfterWriteKept(buf, enc) == buf

\* The buffer stop_recording leaves: cleared once the file is written.
AfterWrite(buf, enc) == IF enc = "ok" THEN <<>> ELSE buf

\* recording_id[:8]: ids are told apart after their first eight characters
\* too, so two of them may begin alike.
First8(rid) == CASE rid \in {"r1", "r2"} -> "r"
                 [] rid = "s1" -> "s"

\* (variant: the Sound gets no category, and so the default one)
RecordedCategoryDefault(category) == "General"

\* The category of the Sound stop_recording builds.
RecordedCategory(category) == category

\* Sound(file_path=..., category=..., name=f"Recording {recording_id[:8]}"),
\* the file being filename in the folder of the category.
RecordedSound(filename, category, rid) ==
    [file_path |-> <<category, filename>>,
     category |-> RecordedCategory(category),
     name |-> <<"Recording", First8(rid)>>]

\* What the rest of stop_recording raises or returns.
StopResult(enc) ==
    IF NothingRecorded(recording_buffer) THEN EmptyRecordingError
    ELSE IF enc = "ok" THEN "ok" ELSE "EncodeError"

\* stop_recording(output_path), from the look at the buffer to the return; when
\* RecordingService.stop_recording made the call, the rest of that method too.
stop_recording_finish(enc) ==
    /\ pc.at = "stop_recording_read"
    /\ stream_rate' = [s \in StreamIds |-> IF s \in stream_open THEN stream_rate[s] ELSE 0]
    /\ IF NothingRecorded(recording_buffer)
       THEN UNCHANGED <<recording_buffer, files>>
       ELSE /\ files' = [files EXCEPT ![pc.path] =
                            Written(@, concatenate(recording_buffer),
                                    EncodeRate(recording_stream), enc)]
            /\ recording_buffer' = AfterWrite(recording_buffer, enc)
    /\ IF pc.via = "service"
       THEN /\ last' = IF StopResult(enc) = "ok"
                       THEN ReturnedValue("svc_stop_recording", pc.path, "ok",
                                          RecordedSound(pc.path, current_category,
                                                        current_recording_id))
                       ELSE Returned("svc_stop_recording", pc.path, StopResult(enc))
            /\ IF StopResult(enc) = "ok"
               THEN /\ current_category' = None
                    /\ current_recording_id' = None
               ELSE UNCHANGED <<current_category, current_recording_id>>
       ELSE /\ last' = Returned("stop_recording", pc.path, StopResult(enc))
            /\ UNCHANGED <<current_category, current_recording_id>>
    /\ delivered' = <<>>
    /\ pc' = Idle
    /\ UNCHANGED <<recording_stream, recording_active, stream_open, stream_closed,
                   reclosed, in_flight, mixer_init, dirs, sound_loop, board, dsp>>
    /\ UNCHANGED playVars

\* cleanup()
cleanup(ub) ==
    /\ pc = Idle
    /\ IF recording_stream # NoStream /\ recording_stream \in stream_closed /\ ub = "crash"
       THEN Crash
       ELSE /\ IF recording_stream # NoStream
               THEN /\ StopAndClose
                    /\ stream_closed' = stream_closed \cup {recording_stream}
               ELSE UNCHANGED <<stream_open, stream_closed, reclosed, in_flight>>
            /\ channels' = EmptyBag
            /\ mixer_init' = FALSE
            /\ last' = Returned("cleanup", "-", "ok")
            /\ UNCHANGED <<playing_sounds, recording_stream, recording_buffer,
                           recording_active, stream_rate, delivered, files, pc>>
            /\ UNCHANGED svcVars

(* --------------------------- RecordingService --------------------------- *)

SvcAlreadyRecordingError == "RuntimeError: Already recording"

\* str(uuid.uuid4()): an id that nothing in the program holds, out of ids.
uuid4(ids) == ids \ {current_recording_id}

\* (variant: the id held from the recording before is kept)
NewRecordingIdKept(rid) == IF current_recording_id = None THEN rid ELSE current_recording_id

\* The id start_recording gives the recording.
NewRecordingId(rid) == rid

\* RecordingService.start_recording(category, device_id); rid is the uuid4 drawn.
svc_start_recording(category, rid, dev) ==
    /\ pc = Idle
    /\ IF is_recording
       THEN /\ last' = Returned("svc_start_recording", "-", SvcAlreadyRecordingError)
            /\ UNCHANGED <<current_category, current_recording_id>>
            /\ UNCHANGED recVars
       ELSE /\ current_category' = category
            /\ current_recording_id' = NewRecordingId(rid)
            /\ EngineStart(44100, dev)
            /\ last' = IF StartResult(dev) = "ok"
                       THEN ReturnedValue("svc_start_recording", "-", "ok",
                                          NewRecordingId(rid))
                       ELSE Returned("svc_start_recording", "-", StartResult(dev))
    /\ UNCHANGED <<dirs, sound_loop, board, dsp, mixer_init, files, pc>>
    /\ UNCHANGED playVars

\* RecordingService.stop_recording(), up to the engine's deactivation of the
\* recording; path is the file name drawn, under the held category's folder.
svc_stop_recording_begin(path) ==
    /\ pc = Idle
    /\ IF ~is_recording
       THEN /\ last' = Returned("svc_stop_recording", "-", NotRecordingError)
            /\ UNCHANGED <<dirs, recording_active, pc>>
       ELSE IF current_category = None
       THEN /\ last' = Returned("svc_stop_recording", "-", "TypeError")
            /\ UNCHANGED <<dirs, recording_active, pc>>
       ELSE /\ dirs' = dirs \cup {current_category}
            /\ recording_active' = FALSE
            /\ pc' = [at |-> "stop_recording", path |-> path, via |-> "service"]
            /\ UNCHANGED last
    /\ UNCHANGED <<recording_stream, recording_buffer, stream_open, stream_rate,
                   stream_closed, reclosed, in_flight, delivered, mixer_init, files,
                   current_category, current_recording_id, sound_loop, board, dsp>>
    /\ UNCHANGED playVars

Encodings == {"ok", "open_fails", "write_fails"}

(* --------------------------- SoundboardService -------------------------- *)

\* An id the board has no Sound for.
UnknownIds == {"x"}

\* The parameters AudioEngine.play takes, and the keyword the ToggleLoop
\* handler passes the Sound's loop flag under.
PlayParams == {"sound_id", "volume", "loops"}
ToggleLoopKeyword == "loop"

\* A bool handed to pygame as a number of repeats: True is 1, False is 0.
Repeats(flag) == IF flag THEN 1 ELSE 0

\* SoundboardService._handle_ToggleLoop(cmd): the flag is flipped, the engine
\* is told to stop the sound and then to play it with the flag.
handle_ToggleLoop(id) ==
    /\ pc = Idle
    /\ IF id \notin ClipIds
       THEN /\ last' = Returned("ToggleLoop", id, "ValueError")
            /\ UNCHANGED <<sound_loop, playing_sounds, channels>>
       ELSE /\ sound_loop' = [sound_loop EXCEPT ![id] = ~@]
            /\ IF StopOutcome(id) # "ok"
               THEN /\ last' = Returned("ToggleLoop", id, StopOutcome(id))
                    /\ UNCHANGED <<playing_sounds, channels>>
               ELSE IF ToggleLoopKeyword \notin PlayParams
               THEN /\ channels' = AfterStop(channels, id)
                    /\ last' = Returned("ToggleLoop", id, "TypeError")
                    /\ UNCHANGED playing_sounds
               ELSE IF ~has_sound(id)
               THEN /\ channels' = AfterStop(channels, id)
                    /\ last' = Returned("ToggleLoop", id, "ValueError")
                    /\ UNCHANGED playing_sounds
               ELSE /\ channels' = SoundPlay(AfterStop(channels, id), id,
                                             Repeats(sound_loop'[id]))
                    /\ last' = Returned("ToggleLoop", id, "ok")
                    /\ UNCHANGED playing_sounds
    /\ UNCHANGED <<mixer_init, files, pc, current_category, current_recording_id, dirs,
                   board, dsp>>
    /\ UNCHANGED recVars

NextRec ==
    \/ \E rate \in Rates, dev \in Devices : start_recording(rate, dev)
    \/ \E s \in StreamIds, blk \in Blocks : callback(s, blk)
    \/ callback_append
    \/ \E path \in Paths : stop_recording_begin(path)
    \/ \E ub \in UseAfterClose : stop_recording_stream(ub)
    \/ \E enc \in Encodings : stop_recording_finish(enc)
    \/ \E ub \in UseAfterClose : cleanup(ub)
    \/ \E c \in Categories, rid \in uuid4(RecIds), dev \in Devices :
           svc_start_recording(c, rid, dev)
    \/ \E path \in Paths : svc_stop_recording_begin(path)

\* The recording as the application drives it: only RecordingService calls
\* the engine's recording methods (soundboard_controller.py), with any of
\* the board's categories.
SvcCategories == {"cat", "fx"}
SvcRecIds == {"r1", "r2", "s1"}

NextSvc ==
    \/ \E c \in SvcCategories, rid \in uuid4(SvcRecIds), dev \in Devices :
           svc_start_recording(c, rid, dev)
    \/ \E s \in StreamIds, blk \in Blocks : callback(s, blk)
    \/ callback_append
    \/ \E path \in Paths : svc_stop_recording_begin(path)
    \/ \E ub \in UseAfterClose : stop_recording_stream(ub)
    \/ \E enc \in Encodings : stop_recording_finish(enc)
    \/ \E ub \in UseAfterClose : cleanup(ub)

NextPlay ==
    \/ \E id \in ClipIds, decodes \in BOOLEAN : load_sound(id, decodes)
    \/ \E id \in ClipIds, v \in VolumeArgs, l \in LoopArgs : play(id, v, l)
    \/ \E id \in ClipIds : stop(id)
    \/ stop_all
    \/ \E id \in ClipIds : unload_sound(id)
    \/ \E e \in DOMAIN channels : VoiceEnds(e)
    \/ \E ub \in UseAfterClose : cleanup(ub)

\* Playback as the board's service drives it.
NextBoard ==
    \/ NextPlay
    \/ \E id \in ClipIds \cup UnknownIds : handle_ToggleLoop(id)

Next == NextBoard \/ NextRec

\* The whole program.
Spec == Init /\ [][Next]_vars

\* Playback and recording share no state but the mixer's initialisation and
\* the caller's position, so each half is also explored on its own.
SpecPlay == Init /\ [][NextPlay]_vars
SpecRec == Init /\ [][NextRec]_vars
SpecBoard == Init /\ [][NextBoard]_vars
SpecSvc == Init /\ [][NextSvc]_vars
(* ------------------------------- effects ------------------------------- *)
(* Factors are in tenths (0.8 is 8).  int(length / factor) is computed     *)
(* exactly: on the lengths and factors explored the double quotient         *)
(* truncates to the same integer.                                           *)
(***************************************************************************)

\* Frames of the input buffers explored, next to the 44100 frames of a second.
MaxFxFrames == 3
\* Effects in the longest chain explored.
MaxChain == 2

ChannelCounts == {1, 2}
FactorArgs == {-5, 0, 8, 10, 15}
EffectClasses == {"PitchEffect", "SpeedEffect"}
\* The factors SlowedEffect and FastEffect hand to SpeedEffect.
PresetFactor == [SlowedEffect |-> 8, FastEffect |-> 15]

Effect(class, f) == [class |-> class, factor |-> f]

\* Everything the offline operations leave alone.
engineVars == <<playing_sounds, channels, mixer_init, files, pc, current_category,
                current_recording_id, dirs, sound_loop, board>>

\* (variant: only a negative factor is refused)
FactorRejectedBelowZero(f) == f < 0

\* The constructors' test of the factor.
FactorRejected(f) == f <= 0

\* PitchEffect(f), SpeedEffect(f), SlowedEffect(), FastEffect(): called as
\* call, building an effect of class class; the caller puts it on its chain.
Construct(call, class, f) ==
    /\ pc = Idle
    /\ Len(dsp.chain) < MaxChain
    /\ IF FactorRejected(f)
       THEN /\ last' = Returned(call, "-", "ValueError")
            /\ UNCHANGED dsp
       ELSE /\ dsp' = [dsp EXCEPT !.chain = Append(@, Effect(class, f)), !.applied = <<>>]
            /\ last' = Returned(call, "-", "ok")
    /\ UNCHANGED engineVars
    /\ UNCHANGED recVars

construct(class, f) == Construct(class, class, f)

construct_preset(name) == Construct(name, "SpeedEffect", PresetFactor[name])

\* int(len(samples) / factor)
TruncDiv(len, f) == (10 * len) \div f

\* scipy.signal.resample(x, num) ends in an inverse FFT of num points, which
\* raises ValueError for num = 0.
ResampleRaises(num) == num = 0

\* An apply that raised.
ErrBuffer == [n |-> -1, chans |-> 0, lo |-> 0, src |-> <<>>]
Raised(b) == b.n < 0

\* (variant: the factor 1.0 is processed like any other)
IsNoOpNever(f) == FALSE

\* The test for factor == 1.0, on which apply returns its argument.
IsNoOp(f) == f = 10

\* PitchEffect.apply: each channel is resampled to int(len / pitch_shift)
\* frames and interpolated back to len frames; the channels are stacked again.
PitchApply(b, f) ==
    IF IsNoOp(f) THEN b
    ELSE LET new_length == TruncDiv(b.n, f)
             resampled == [b EXCEPT !.n = new_length]
         IN IF ResampleRaises(new_length) THEN ErrBuffer
            ELSE [resampled EXCEPT !.n = b.n,
                                   !.src = Append(@, Effect("PitchEffect", f))]

\* SpeedEffect.apply: each channel is resampled to int(len / speed) frames.
SpeedApply(b, f) ==
    IF IsNoOp(f) THEN b
    ELSE LET new_length == TruncDiv(b.n, f)
         IN IF ResampleRaises(new_length) THEN ErrBuffer
            ELSE [b EXCEPT !.n = new_length,
                           !.src = Append(@, Effect("SpeedEffect", f))]

\* effect(samples, samplerate)
Apply(e, b) ==
    IF e.class = "PitchEffect" THEN PitchApply(b, e.factor) ELSE SpeedApply(b, e.factor)

\* (variant: the chain is run from its end)
ApplyChainReversed(b, chain) ==
    LET run[i \in 0..Len(chain)] ==
            IF i = 0 THEN b
            ELSE IF Raised(run[i - 1]) THEN ErrBuffer
            ELSE Apply(chain[Len(chain) - i + 1], run[i - 1])
    IN run[Len(chain)]

\* The loop of apply_effects_to_file: processed = effect(processed, samplerate)
\* for each effect of the chain; an effect that raises ends the call.
ApplyChain(b, chain) ==
    LET run[i \in 0..Len(chain)] ==
            IF i = 0 THEN b
            ELSE IF Raised(run[i - 1]) THEN ErrBuffer
            ELSE Apply(chain[i], run[i - 1])
    IN run[Len(chain)]

\* The file sf.write(path, buf, rate) leaves: enc as for Written.
WrittenAudio(old, buf, rate, enc) ==
    CASE enc = "ok" -> AudioFile(buf, rate)
      [] enc = "open_fails" -> old
      [] enc = "write_fails" -> [state |-> "partial", buf |-> NoBuffer, rate |-> rate]

\* apply_effects_to_file(input_path, output_path, effect_chain), the chain
\* being the one the caller has built.
apply_effects_to_file(enc) ==
    /\ pc = Idle
    /\ LET processed == ApplyChain(dsp.input.buf, dsp.chain)
       IN IF dsp.input.state # "complete"
          THEN /\ dsp' = [dsp EXCEPT !.chain = <<>>, !.applied = dsp.chain]
               /\ last' = Returned("apply_effects", "-", "DecodeError")
          ELSE IF Raised(processed)
          THEN /\ dsp' = [dsp EXCEPT !.chain = <<>>, !.applied = dsp.chain]
               /\ last' = Returned("apply_effects", "-", "ValueError")
          ELSE /\ dsp' = [dsp EXCEPT !.chain = <<>>, !.applied = dsp.chain,
                                     !.output = WrittenAudio(@, processed, dsp.input.rate, enc)]
               /\ last' = Returned("apply_effects", "-",
                                   IF enc = "ok" THEN "ok" ELSE "EncodeError")
    /\ UNCHANGED engineVars
    /\ UNCHANGED recVars

\* The files the effects are tried on, and what may lie at the output path.
FxLengths == 0..MaxFxFrames \cup {44100}
FxInputs ==
    {NoAudio} \cup {AudioFile(Original(n, c), r) :
                       n \in FxLengths, c \in ChannelCounts, r \in Rates}
PriorOutputs == {NoAudio, AudioFile(Original(1, 1), 44100)}

InitFx ==
    /\ InitEngine
    /\ board = NewBoard
    /\ dsp \in {[input |-> i, output |-> o, chain |-> <<>>, applied |-> <<>>] :
                   i \in FxInputs, o \in PriorOutputs}

NextFx ==
    \/ \E class \in EffectClasses, f \in FactorArgs : construct(class, f)
    \/ \E name \in DOMAIN PresetFactor : construct_preset(name)
    \/ \E enc \in Encodings : apply_effects_to_file(enc)

SpecFx == InitFx /\ [][NextFx]_vars

(* ------------------------------ AudioTrimmer ---------------------------- *)
(* A time is the double nearest num / den seconds: a count of microseconds  *)
(* or the duration of a count of frames at a sample rate.                   *)
(***************************************************************************)

\* Frames of the longest input file explored.
MaxFrames == 16

Micro(us) == [num |-> us, den |-> 1000000]
Frames(k, sr) == [num |-> k, den |-> sr]

MicroArgs == {-1, 60}
FrameArgs == {0, 1, 15, MaxFrames, MaxFrames + 1}
TrimTimes(sr) == {Micro(us) : us \in MicroArgs} \cup {Frames(k, sr) : k \in FrameArgs}

NegativeStartError == "ValueError: start_time cannot be negative"
EndNotAfterStartError == "ValueError: end_time must be greater than start_time"
StartBeyondEndError == "ValueError: start_time exceeds audio duration"

\* start_time < 0
Negative(t) == t.num < 0

\* (variant: equal times are let through)
NotAfterStrict(e, t) == e.num * t.den < t.num * e.den

\* end_time <= start_time
NotAfter(e, t) == e.num * t.den <= t.num * e.den

\* The frame counts k and rates sr, among those explored (k up to 40), for
\* which the double (k / sr) * sr comes out below k.
RoundsBelow == {<<15, 44100>>, <<23, 44100>>, <<30, 44100>>, <<27, 48000>>}

\* int(time * samplerate) for a time that is not negative: the double product
\* truncated; it is the exact product truncated but for the durations above.
ToSample(t, sr) ==
    LET exact == (t.num * sr) \div t.den
    IN IF t.den = sr /\ <<t.num, sr>> \in RoundsBelow THEN exact - 1 ELSE exact

\* start_sample >= total_samples
StartBeyond(start_sample, total_samples) == start_sample >= total_samples

\* data[a:b]
Slice(buf, a, b) == [buf EXCEPT !.lo = @ + a, !.n = IF b > a THEN b - a ELSE 0]

\* What trim raises or returns.
TrimResult(start, end, enc) ==
    IF Negative(start) THEN NegativeStartError
    ELSE IF NotAfter(end, start) THEN EndNotAfterStartError
    ELSE IF dsp.input.state # "complete" THEN "DecodeError"
    ELSE IF StartBeyond(ToSample(start, dsp.input.rate), dsp.input.buf.n)
    THEN StartBeyondEndError
    ELSE IF enc = "ok" THEN "ok" ELSE "EncodeError"

\* AudioTrimmer.trim(input_path, output_path, start_time, end_time)
trim(start, end, enc) ==
    /\ pc = Idle
    /\ IF TrimResult(start, end, enc) \in {"ok", "EncodeError"}
       THEN LET samplerate == dsp.input.rate
                start_sample == ToSample(start, samplerate)
                total_samples == dsp.input.buf.n
                end_sample == IF ToSample(end, samplerate) < total_samples
                              THEN ToSample(end, samplerate) ELSE total_samples
                trimmed == Slice(dsp.input.buf, start_sample, end_sample)
            IN dsp' = [dsp EXCEPT !.output = WrittenAudio(@, trimmed, samplerate, enc)]
       ELSE UNCHANGED dsp
    /\ last' = Returned("trim", "-", TrimResult(start, end, enc))
    /\ UNCHANGED engineVars
    /\ UNCHANGED recVars

\* The files trim is tried on and the times it is given.
TrimLengths == {0, 1, 3, 15, MaxFrames}
TrimInputs ==
    {NoAudio} \cup {AudioFile(Original(n, c), r) :
                       n \in TrimLengths, c \in ChannelCounts, r \in Rates}
TrimRate == IF dsp.input.state = "complete" THEN dsp.input.rate ELSE 44100

InitTrim ==
    /\ InitEngine
    /\ board = NewBoard
    /\ dsp \in {[input |-> i, output |-> o, chain |-> <<>>, applied |-> <<>>] :
                   i \in TrimInputs, o \in PriorOutputs}

NextTrim ==
    \E start \in TrimTimes(TrimRate), end \in TrimTimes(TrimRate), enc \in Encodings :
        trim(start, end, enc)

SpecTrim == InitTrim /\ [][NextTrim]_vars

(* ------------------------------- Soundboard ---------------------------- *)

\* hotkey.upper()
Upper(hotkey) == IF hotkey = "a" THEN "A" ELSE hotkey

\* Sound(id=..., category=..., hotkey=...): __post_init__ leaves the hotkey
\* as it was given.
Sound(category, hotkey) ==
    [present |-> TRUE, category |-> category, hotkey |-> hotkey, volume |-> DefaultVolume,
     file_path |-> <<"in">>, effects |-> <<>>]

Elements(list) == {list[i] : i \in 1..Len(list)}

\* list.remove(x): the list without the first x.
RECURSIVE ListRemove(_, _)
ListRemove(list, x) ==
    IF list = <<>> THEN <<>>
    ELSE IF Head(list) = x THEN Tail(list)
    ELSE <<Head(list)>> \o ListRemove(Tail(list), x)

\* Soundboard._is_hotkey_in_use(hotkey, exclude_id)
is_hotkey_in_use(b, hotkey, exclude_id) ==
    \E sid \in ClipIds :
        /\ sid # exclude_id
        /\ b.sounds[sid].present
        /\ b.sounds[sid].hotkey = Upper(hotkey)

HotkeyInUseError == "ValueError: Hotkey is already in use"
SoundNotFoundError == "ValueError: Sound not found"
CategoryExistsError == "ValueError: Category already exists"

\* Soundboard.add_sound(sound) raises.
AddRefused(b, id, sound) == sound.hotkey # "" /\ is_hotkey_in_use(b, sound.hotkey, id)

\* The board after an add_sound(sound) that did not raise.
Added(b, id, sound) ==
    LET made == IF b.categories[sound.category].exists
                THEN b.categories
                ELSE [b.categories EXCEPT ![sound.category] = [exists |-> TRUE, ids |-> <<>>]]
        listed == IF id \in Elements(made[sound.category].ids)
                  THEN made
                  ELSE [made EXCEPT ![sound.category].ids = Append(@, id)]
    IN [sounds |-> [b.sounds EXCEPT ![id] = sound], categories |-> listed]

\* The board after remove_sound(sound_id).
Removed(b, id) ==
    IF ~b.sounds[id].present THEN b
    ELSE LET c == b.sounds[id].category
             ids == ListRemove(b.categories[c].ids, id)
             cats == IF ~b.categories[c].exists THEN b.categories
                     ELSE IF ids = <<>> THEN [b.categories EXCEPT ![c] = NoCategory]
                     ELSE [b.categories EXCEPT ![c].ids = ids]
         IN [sounds |-> [b.sounds EXCEPT ![id] = NoSound], categories |-> cats]

\* The board after remove_sound was called for each id of the list in turn.
RECURSIVE RemovedAll(_, _)
RemovedAll(b, ids) ==
    IF ids = <<>> THEN b ELSE RemovedAll(Removed(b, Head(ids)), Tail(ids))

\* What the Soundboard's methods leave alone.
boardFrame == <<playing_sounds, channels, mixer_init, files, pc, current_category,
                current_recording_id, sound_loop, dsp>>

\* Soundboard.add_sound(sound), sound being a Sound of the given id
add_sound(id, category, hotkey) ==
    /\ pc = Idle
    /\ IF AddRefused(board, id, Sound(category, hotkey))
       THEN /\ last' = Returned("add_sound", id, HotkeyInUseError)
            /\ UNCHANGED board
       ELSE /\ board' = Added(board, id, Sound(category, hotkey))
            /\ last' = Returned("add_sound", id, "ok")
    /\ UNCHANGED <<boardFrame, dirs>>
    /\ UNCHANGED recVars

\* Soundboard.remove_sound(sound_id)
remove_sound(id) ==
    /\ pc = Idle
    /\ board' = Removed(board, id)
    /\ last' = Returned("remove_sound", id, "ok")
    /\ UNCHANGED <<boardFrame, dirs>>
    /\ UNCHANGED recVars

\* Soundboard.update_sound_hotkey(sound_id, new_hotkey)
update_sound_hotkey(id, new_hotkey) ==
    /\ pc = Idle
    /\ IF ~board.sounds[id].present
       THEN /\ last' = Returned("update_sound_hotkey", id, SoundNotFoundError)
            /\ UNCHANGED board
       ELSE IF Upper(new_hotkey) # "" /\ is_hotkey_in_use(board, Upper(new_hotkey), id)
       THEN /\ last' = Returned("update_sound_hotkey", id, HotkeyInUseError)
            /\ UNCHANGED board
       ELSE /\ board' = [board EXCEPT !.sounds[id].hotkey = Upper(Upper(new_hotkey))]
            /\ last' = Returned("update_sound_hotkey", id, "ok")
    /\ UNCHANGED <<boardFrame, dirs>>
    /\ UNCHANGED recVars

\* Soundboard.create_category(category_name)
create_category(name) ==
    /\ pc = Idle
    /\ board' = IF board.categories[name].exists THEN board
                ELSE [board EXCEPT !.categories[name] = [exists |-> TRUE, ids |-> <<>>]]
    /\ last' = Returned("create_category", name, "ok")
    /\ UNCHANGED <<boardFrame, dirs>>
    /\ UNCHANGED recVars

\* Soundboard.rename_category(old_name, new_name)
rename_category(old_name, new_name) ==
    /\ pc = Idle
    /\ IF ~board.categories[old_name].exists
       THEN /\ last' = Returned("rename_category", old_name, "ok")
            /\ UNCHANGED board
       ELSE IF board.categories[new_name].exists /\ new_name # old_name
       THEN /\ last' = Returned("rename_category", old_name, CategoryExistsError)
            /\ UNCHANGED board
       ELSE /\ board' =
                 [sounds |->
                     [id \in ClipIds |->
                         IF id \in Elements(board.categories[old_name].ids)
                            /\ board.sounds[id].present
                         THEN [board.sounds[id] EXCEPT !.category = new_name]
                         ELSE board.sounds[id]],
                  categories |->
                     [[board.categories EXCEPT ![old_name] = NoCategory]
                         EXCEPT ![new_name] = board.categories[old_name]]]
            /\ last' = Returned("rename_category", old_name, "ok")
    /\ UNCHANGED <<boardFrame, dirs>>
    /\ UNCHANGED recVars

\* Soundboard.delete_category(category_name)
delete_category(name) ==
    /\ pc = Idle
    /\ board' = IF ~board.categories[name].exists THEN board
                ELSE [RemovedAll(board, board.categories[name].ids)
                         EXCEPT !.categories[name] = NoCategory]
    /\ last' = Returned("delete_category", name, "ok")
    /\ UNCHANGED <<boardFrame, dirs>>
    /\ UNCHANGED recVars

\* SoundboardService._handle_MoveSoundToCategory(cmd); moved: shutil.move
\* finds the file and moves it.
handle_MoveSoundToCategory(id, target_category, moved) ==
    /\ pc = Idle
    /\ IF ~board.sounds[id].present
       THEN /\ last' = Returned("MoveSoundToCategory", id, SoundNotFoundError)
            /\ UNCHANGED <<board, dirs>>
       ELSE /\ dirs' = dirs \cup {target_category}
            /\ IF ~moved
               THEN /\ last' = Returned("MoveSoundToCategory", id, "FileNotFoundError")
                    /\ UNCHANGED board
               ELSE LET sound == [board.sounds[id] EXCEPT !.category = target_category]
                        without == Removed(board, id)
                    IN IF AddRefused(without, id, sound)
                       THEN /\ board' = without
                            /\ last' = Returned("MoveSoundToCategory", id, HotkeyInUseError)
                       ELSE /\ board' = Added(without, id, sound)
                            /\ last' = Returned("MoveSoundToCategory", id, "ok")
    /\ UNCHANGED boardFrame
    /\ UNCHANGED recVars

NextSoundboard ==
    \/ \E id \in ClipIds, c \in BoardCategories, h \in Hotkeys : add_sound(id, c, h)
    \/ \E id \in ClipIds : remove_sound(id)
    \/ \E id \in ClipIds, h \in Hotkeys : update_sound_hotkey(id, h)
    \/ \E c \in BoardCategories : create_category(c)
    \/ \E old \in BoardCategories, new \in BoardCategories : rename_category(old, new)
    \/ \E c \in BoardCategories : delete_category(c)
    \/ \E id \in ClipIds, c \in BoardCategories, moved \in BOOLEAN :
           handle_MoveSoundToCategory(id, c, moved)

SpecSoundboard == Init /\ [][NextSoundboard]_vars

(* ------------------- SoundboardService: play and effects ---------------- *)

\* The keyword _handle_PlaySound passes the number of repeats under.
PlaySoundKeyword == "loop"

\* self.soundboard.get_sound(sound_id) finds a Sound.
Registered(id) == id \in ClipIds /\ board.sounds[id].present

\* What _handle_PlaySound raises or returns; decodes: pygame can decode the
\* Sound's file.
PlaySoundResult(id, decodes) ==
    IF ~Registered(id) THEN SoundNotFoundError
    ELSE IF ~(mixer_init /\ decodes) THEN "RuntimeError"
    ELSE IF PlaySoundKeyword \notin PlayParams THEN "TypeError"
    ELSE "ok"

\* SoundboardService._handle_PlaySound(cmd): the clip is loaded, then played
\* once at the Sound's volume.
handle_PlaySound(id, decodes) ==
    /\ pc = Idle
    /\ last' = Returned("PlaySound", id, PlaySoundResult(id, decodes))
    /\ IF PlaySoundResult(id, decodes) \in {SoundNotFoundError, "RuntimeError"}
       THEN UNCHANGED <<playing_sounds, channels>>
       ELSE LET reloaded == Orphan(channels, id, playing_sounds[id].vol)
            IN IF PlaySoundResult(id, decodes) = "TypeError"
               THEN /\ playing_sounds' = [playing_sounds EXCEPT
                                             ![id] = [loaded |-> TRUE, vol |-> DefaultVolume]]
                    /\ channels' = reloaded
               ELSE /\ playing_sounds' =
                         [playing_sounds EXCEPT
                             ![id] = [loaded |-> TRUE,
                                      vol |-> SetVolume(DefaultVolume, board.sounds[id].volume)]]
                    /\ channels' = SoundPlay(reloaded, id, 0)
    /\ UNCHANGED <<mixer_init, files, pc>>
    /\ UNCHANGED recVars
    /\ UNCHANGED svcVars

\* _effect_factory: the positional parameters each entry's lambda takes,
\* and the effect it builds; params is the factor of cmd.parameters.
FactoryParams == [pitch_high |-> 0, pitch_low |-> 0, slowed |-> 0, fast |-> 0, speed |-> 1]
FactoryEffect(name, params) ==
    CASE name = "pitch_high" -> Effect("PitchEffect", 15)
      [] name = "pitch_low" -> Effect("PitchEffect", 7)
      [] name = "slowed" -> Effect("SpeedEffect", PresetFactor.SlowedEffect)
      [] name = "fast" -> Effect("SpeedEffect", PresetFactor.FastEffect)
      [] name = "speed" -> Effect("SpeedEffect", params)

\* The effect names and the factors ApplyEffect commands carry.
EffectNames == DOMAIN FactoryParams \cup {"reverb"}
FactorParams == {10, 15}

UnknownEffectError == "ValueError: Unknown effect"

\* The entry is called without arguments (soundboard_service.py:250) and,
\* being callable, once more with cmd.parameters (251-252): a call with a
\* number of arguments the lambda does not take raises TypeError.
FactoryRaises(name) == FactoryParams[name] # 0 \/ FactoryParams[name] # 1

\* sound.add_effect(effect_name)
add_effect(effects, name) ==
    IF name \in Elements(effects) THEN effects ELSE Append(effects, name)

\* What _handle_ApplyEffect raises or returns; the Sound's file is the
\* input file of the offline processing.
ApplyEffectResult(id, name, params, enc, decodes) ==
    IF ~Registered(id) THEN SoundNotFoundError
    ELSE IF name \notin DOMAIN FactoryParams THEN UnknownEffectError
    ELSE IF FactoryRaises(name) THEN "TypeError"
    ELSE IF FactorRejected(FactoryEffect(name, params).factor) THEN "ValueError"
    ELSE IF dsp.input.state # "complete" THEN "DecodeError"
    ELSE IF Raised(Apply(FactoryEffect(name, params), dsp.input.buf)) THEN "ValueError"
    ELSE IF enc # "ok" THEN "EncodeError"
    ELSE IF ~(mixer_init /\ decodes) THEN "RuntimeError"
    ELSE "ok"

\* SoundboardService._handle_ApplyEffect(cmd)
handle_ApplyEffect(id, name, params, enc, decodes) ==
    /\ pc = Idle
    /\ last' = Returned("ApplyEffect", id, ApplyEffectResult(id, name, params, enc, decodes))
    /\ LET res == ApplyEffectResult(id, name, params, enc, decodes)
           wrote == res \in {"EncodeError", "RuntimeError", "ok"}
           renamed == res \in {"RuntimeError", "ok"}
       IN /\ dirs' = IF wrote THEN dirs \cup {board.sounds[id].category} ELSE dirs
          /\ dsp' = IF wrote
                    THEN [dsp EXCEPT !.output =
                             WrittenAudio(@, Apply(FactoryEffect(name, params), dsp.input.buf),
                                          dsp.input.rate, enc)]
                    ELSE dsp
          /\ board' = IF renamed
                      THEN [board EXCEPT
                               !.sounds[id].file_path = Append(@, name),
                               !.sounds[id].effects = add_effect(@, name)]
                      ELSE board
          /\ IF res = "ok"
             THEN /\ playing_sounds' = [playing_sounds EXCEPT
                                           ![id] = [loaded |-> TRUE, vol |-> DefaultVolume]]
                  /\ channels' = Orphan(channels, id, playing_sounds[id].vol)
             ELSE UNCHANGED <<playing_sounds, channels>>
    /\ UNCHANGED <<mixer_init, files, pc, current_category, current_recording_id, sound_loop>>
    /\ UNCHANGED recVars

\* The boards the handlers are tried on, and the files of their sounds.
HandlerBoards ==
    {NewBoard,
     Added(NewBoard, "a", [Sound("cat", "") EXCEPT !.volume = 50]),
     Added(Added(NewBoard, "a", Sound("cat", "")), "b", Sound("fx", "A"))}

InitHandlers ==
    /\ InitEngine
    /\ board \in HandlerBoards
    /\ dsp \in {[input |-> i, output |-> NoAudio, chain |-> <<>>, applied |-> <<>>] :
                   i \in {NoAudio, AudioFile(Original(MaxFxFrames, 2), 44100)}}

NextHandlers ==
    \/ \E id \in ClipIds \cup UnknownIds, decodes \in BOOLEAN : handle_PlaySound(id, decodes)
    \/ \E id \in ClipIds \cup UnknownIds, name \in EffectNames, params \in FactorParams,
          enc \in Encodings, decodes \in BOOLEAN :
           handle_ApplyEffect(id, name, params, enc, decodes)
    \/ \E id \in ClipIds : stop(id)
    \/ \E id \in ClipIds, v \in VolumeArgs, l \in LoopArgs : play(id, v, l)
    \/ \E e \in DOMAIN channels : VoiceEnds(e)
    \/ \E ub \in UseAfterClose : cleanup(ub)

SpecHandlers == InitHandlers /\ [][NextHandlers]_vars

(* ------------------------------- claims -------------------------------- *)

\* A call has just returned.
Returns == last' # last

Loaded(id) == playing_sounds[id].loaded

\* C1: at most one Voice is active per clip id, whatever calls were made
\* (a second play of an id replaces the Voice of the first).
C1_OneVoicePerClip == \A id \in ClipIds : Voices(id) <= 1

\* C2: with a and b loaded, a Voice of a active and none of b, is_playing(b)
\* is false.
C2_IsPlayingPerClip ==
    \A a, b \in ClipIds :
        (Loaded(a) /\ Loaded(b) /\ Voices(a) >= 1 /\ Voices(b) = 0) => ~is_playing(b)

\* C3: once stop(id) has returned, no Voice of id is active, also not one
\* started before id was loaded again.
C3_StopSilencesClip == last.op = "stop" => Voices(last.id) = 0

\* C4: at most one input stream is open at any time, and start_recording
\* called while one is open fails with the already-recording error and leaves
\* the stream, the captured blocks and the active flag as they were.
C4_StartWhileRecording ==
    /\ [](Cardinality(stream_open) <= 1)
    /\ [][(stream_open # {} /\ Returns /\ last'.op = "start_recording")
            => /\ last'.res = AlreadyRecordingError
               /\ UNCHANGED <<stream_open, recording_stream, stream_rate,
                              recording_buffer, recording_active>>
               /\ is_recording']_vars

C4_Witness ==
    /\ last.op = "start_recording"
    /\ last.res = AlreadyRecordingError
    /\ stream_open # {}
    /\ Len(recording_buffer) = MaxBlocks

\* C5: stop_recording called while no recording is active fails with the
\* not-recording error, on the engine and on the service, and changes nothing:
\* no engine state, no file, no folder asked of the storage, no session state.
C5_StopWhileNotRecording ==
    [][(pc = Idle /\ ~recording_active /\ Returns
          /\ last'.op \in {"stop_recording", "svc_stop_recording"})
        => /\ last'.res = NotRecordingError
           /\ UNCHANGED <<playing_sounds, channels, mixer_init, recording_stream,
                          recording_buffer, recording_active, stream_open, stream_rate,
                          files, pc, current_category, current_recording_id, dirs>>]_vars

C5_Witness ==
    /\ last.op = "svc_stop_recording"
    /\ last.res = NotRecordingError
    /\ ~is_recording
    /\ dirs = {}
    /\ \A p \in Paths : files[p] = NoFile

\* The frames of a sequence of blocks, first block first.
RECURSIVE InArrivalOrder(_)
InArrivalOrder(blocks) ==
    IF blocks = <<>> THEN <<>> ELSE Head(blocks) \o InArrivalOrder(Tail(blocks))

\* C6: a stop_recording that succeeds leaves at its path a complete file
\* holding the blocks delivered between start_recording and stop_recording,
\* each once and in arrival order.
C6_WritesDeliveredBlocks ==
    [][(pc.at = "stop_recording_read" /\ Returns /\ last'.res = "ok")
        => /\ files'[pc.path].state = "complete"
           /\ files'[pc.path].data = InArrivalOrder(delivered)]_vars

C6_Witness ==
    /\ last.op = "stop_recording"
    /\ last.res = "ok"
    /\ files[last.id].state = "complete"
    /\ files[last.id].data = <<2, 1, 1>>

\* C7: stop_recording on an active recording with no captured block fails
\* with the empty-recording error and leaves every file as it was.
C7_EmptyRecording ==
    [][(pc.at = "stop_recording_read" /\ recording_buffer = <<>> /\ Returns)
        => /\ last'.res = EmptyRecordingError
           /\ files' = files]_vars

C7_Witness ==
    /\ last.op = "stop_recording"
    /\ last.res = EmptyRecordingError
    /\ files[last.id] = NoFile
    /\ ~is_recording

\* C8: a stop_recording that succeeds encodes the file at the sample rate
\* the stream was opened with by the matching start_recording.
C8_EncodesAtStreamRate ==
    [][(pc.at = "stop_recording_read" /\ Returns /\ last'.res = "ok")
        => \A s \in StreamIds : stream_rate[s] # 0 => files'[pc.path].rate = stream_rate[s]]_vars

\* C9: after a stop_recording that succeeded no stream exists, the buffer is
\* empty and is_recording() is false, and a start_recording that follows is
\* not refused as already recording.
C9_ClearedAfterStop ==
    /\ []((last.op \in {"stop_recording", "svc_stop_recording"} /\ last.res = "ok")
            => /\ recording_stream = NoStream
               /\ stream_open = {}
               /\ recording_buffer = <<>>
               /\ ~is_recording)
    /\ [][(last.op \in {"stop_recording", "svc_stop_recording"} /\ last.res = "ok"
             /\ Returns /\ last'.op = "start_recording")
            => last'.res # AlreadyRecordingError]_vars

C9_Witness ==
    /\ last.op = "start_recording"
    /\ last.res = "ok"
    /\ is_recording
    /\ \E p \in Paths : files[p].state = "complete"

\* C10: after cleanup() has returned no Voice is active, no input stream is
\* open and is_recording() is false.
C10_CleanupStopsEverything ==
    last.op = "cleanup" => BusyCount = 0 /\ stream_open = {} /\ ~is_recording

\* C11: cleanup() called again right after cleanup() does not fail, leaves
\* the engine in the state the first call left, and does not stop or close
\* the input stream the first call closed.
C11_CleanupIdempotent ==
    [][(last.op = "cleanup" /\ pc = Idle /\ \E ub \in UseAfterClose : cleanup(ub))
        => /\ pc' = Idle
           /\ last'.op = "cleanup"
           /\ last'.res = "ok"
           /\ reclosed' = reclosed
           /\ UNCHANGED <<playing_sounds, channels, mixer_init, recording_stream,
                          recording_buffer, recording_active, stream_open, stream_rate,
                          stream_closed, files>>]_vars

\* C12: play of an id that is not loaded fails with the not-loaded error
\* (the code's ValueError) and changes nothing: no Voice starts or stops, no
\* volume changes, the loaded clips and the recording stay as they were.
C12_PlayUnloaded ==
    [][(Returns /\ last'.op = "play" /\ ~Loaded(last'.id))
        => /\ last'.res = "ValueError"
           /\ UNCHANGED <<playing_sounds, channels, mixer_init, recording_stream,
                          recording_buffer, recording_active, stream_open, stream_rate,
                          files, pc>>]_vars

C12_Witness ==
    /\ last.op = "play"
    /\ last.res = "ValueError"
    /\ ~Loaded(last.id)
    /\ Voices(last.id) > 0

\* C13: play of a loaded id with a volume outside [0, 1] (0..100 percent)
\* fails with an invalid-argument error, starts no Voice and changes no
\* volume.
C13_VolumeValidated ==
    [][\A id \in ClipIds, v \in VolumeArgs, l \in LoopArgs :
          (Loaded(id) /\ mixer_init /\ (v < 0 \/ v > 100) /\ play(id, v, l))
          => /\ last'.res = "InvalidArgument"
             /\ UNCHANGED <<playing_sounds, channels>>]_vars

\* C14: is_playing(id) is true right after a play of id that succeeded, and
\* once the last Voice of id has ended on its own is_playing(id) is false.
C14_EndedVoiceNotPlaying ==
    /\ [][\A id \in ClipIds :
            (Returns /\ last'.op = "play" /\ last'.id = id /\ last'.res = "ok")
            => is_playing(id)']_vars
    /\ [][\A e \in DOMAIN channels :
            (VoiceEnds(e) /\ Voices(e.id)' = 0) => ~is_playing(e.id)']_vars

\* Voices of clip id that were started to loop for ever.
LoopingVoices(id) ==
    BagCardinality([e \in {x \in DOMAIN channels : x.id = id /\ x.loops = -1}
                      |-> channels[e]])

\* C15: a Voice started to loop goes away only through a call (stop,
\* stop_all, unload, cleanup or a handler that stops it), never on its own;
\* and when the ToggleLoop handler has run for a loaded sound with a channel
\* free, a Voice of the sound is active that loops for ever if the sound's
\* loop flag is now on and plays once if it is off.
C15_LoopFlagReachesEngine ==
    /\ [][\A id \in ClipIds :
            LoopingVoices(id)' < LoopingVoices(id)
            => /\ Returns
               /\ last'.op \in {"stop", "stop_all", "unload_sound", "cleanup", "ToggleLoop"}]_vars
    /\ [][\A id \in ClipIds :
            (Loaded(id) /\ mixer_init /\ BusyCount < NumChannels /\ handle_ToggleLoop(id))
            => /\ last'.res = "ok"
               /\ \E e \in DOMAIN channels' :
                     /\ e.id = id
                     /\ ~e.stale
                     /\ e.loops = IF sound_loop'[id] THEN -1 ELSE 0]_vars

C17_StopAllSilences ==
    /\ [](last.op = "stop_all" => BusyCount = 0 /\ \A id \in ClipIds : ~is_playing(id))
    /\ [][(Returns /\ last'.op = "stop_all")
            => /\ channels = EmptyBag => channels' = channels
               /\ UNCHANGED <<playing_sounds, mixer_init, recording_stream,
                              recording_buffer, recording_active, stream_open,
                              stream_rate, files, pc>>]_vars

C17_Witness ==
    /\ last.op = "stop_all"
    /\ last.res = "ok"
    /\ \A id \in ClipIds : Loaded(id) /\ playing_sounds[id].vol = 50
    /\ BusyCount = 0

\* C18: once unload(id) has returned, no Voice of id is active, id has no
\* loaded clip and is_playing(id) is false.
C18_UnloadSilencesClip ==
    (last.op = "unload_sound" /\ last.res = "ok")
    => /\ Voices(last.id) = 0
       /\ ~Loaded(last.id)
       /\ ~is_playing(last.id)

\* The volume a busy channel sounds at.
VoiceVolume(e, snds) == IF e.stale THEN e.vol ELSE snds[e.id].vol

\* Voices of clip id that play with loops l at volume v.
SoundingAs(chs, snds, id, l, v) ==
    BagCardinality([e \in {x \in DOMAIN chs :
                              x.id = id /\ x.loops = l /\ VoiceVolume(x, snds) = v}
                      |-> chs[e]])

\* C19: load of an id that is already loaded puts a new clip under the id
\* and leaves every Voice as it was, in number, looping and volume; the
\* Voices of the id go on playing the earlier decode, and a play of the id
\* that finds a channel starts a Voice of the clip now loaded.
C19_ReloadKeepsVoice ==
    /\ [][\A id \in ClipIds :
            (Loaded(id) /\ Returns /\ last'.op = "load_sound" /\ last'.id = id
               /\ last'.res = "ok")
            => /\ playing_sounds'[id] = [loaded |-> TRUE, vol |-> DefaultVolume]
               /\ \A e \in DOMAIN channels' : e.id = id => e.stale
               /\ \A id2 \in ClipIds, l \in LoopArgs :
                     \A v \in {VoiceVolume(e, playing_sounds) : e \in DOMAIN channels}
                              \cup {VoiceVolume(e, playing_sounds') : e \in DOMAIN channels'} :
                        SoundingAs(channels', playing_sounds', id2, l, v)
                          = SoundingAs(channels, playing_sounds, id2, l, v)]_vars
    /\ [][\A id \in ClipIds :
            (BusyCount < NumChannels /\ Returns /\ last'.op = "play" /\ last'.id = id
               /\ last'.res = "ok")
            => \E l \in LoopArgs :
                  CopiesIn(Entry(id, l), channels') = CopiesIn(Entry(id, l), channels) + 1]_vars

C19_Witness ==
    /\ last.op = "load_sound"
    /\ last.res = "ok"
    /\ playing_sounds[last.id].vol = DefaultVolume
    /\ \E e \in DOMAIN channels : e.id = last.id /\ e.stale /\ e.vol = 50 /\ e.loops = -1

\* C20: when stop_recording looks at the buffer the recording is inactive,
\* the stream is stopped and no callback is running; the buffer does not
\* change during the read nor after it while the engine stays inactive; and a
\* callback that starts after the flag was cleared never appends its block.
C20_BufferReadAfterStop ==
    /\ [](pc.at = "stop_recording_read"
            => ~recording_active /\ stream_open = {} /\ in_flight = NoBlock)
    /\ [][(pc.at = "stop_recording_read" /\ pc' = pc)
            => recording_buffer' = recording_buffer]_vars
    /\ [][(pc = Idle /\ ~recording_active /\ pc' = Idle /\ ~recording_active')
            => recording_buffer' = recording_buffer]_vars
    /\ [][(~recording_active /\ in_flight = NoBlock) => in_flight' = NoBlock]_vars
    /\ [][recording_buffer' # recording_buffer /\ recording_buffer' # <<>> /\ pc' = pc
            => in_flight # NoBlock /\ in_flight' = NoBlock]_vars

C20_Witness ==
    /\ pc.at = "stop_recording"
    /\ ~recording_active
    /\ stream_open # {}
    /\ in_flight # NoBlock
    /\ recording_buffer # <<>>

\* C21: whatever happens to an encode, in stop_recording or in
\* apply_effects, no output path ever holds a half-written file: it holds no
\* file, its earlier content, or a complete file.
C21_NoHalfWrittenFile ==
    /\ \A p \in Paths : files[p].state # "partial"
    /\ dsp.output.state # "partial"

\* What a chain makes of a buffer when its first effect works on the buffer
\* and every later effect on what its predecessor returned.
RECURSIVE InListOrder(_, _)
InListOrder(b, chain) ==
    IF chain = <<>> THEN b ELSE InListOrder(Apply(Head(chain), b), Tail(chain))

\* C22: an apply_effects that succeeds writes what the chain's effects make
\* of the decoded input when applied in list order, each to the output of the
\* one before, at the input's sample rate; with an empty chain it writes the
\* input buffer.
C22_ChainInListOrder ==
    [][(Returns /\ last'.op = "apply_effects" /\ last'.res = "ok")
        => /\ dsp'.output.state = "complete"
           /\ dsp'.output.buf = InListOrder(dsp.input.buf, dsp.chain)
           /\ dsp'.output.rate = dsp.input.rate
           /\ dsp.chain = <<>> => dsp'.output.buf = dsp.input.buf]_vars

C22_Witness ==
    /\ last.op = "apply_effects"
    /\ last.res = "ok"
    /\ Len(dsp.output.buf.src) = MaxChain
    /\ dsp.output.buf.src[1].class # dsp.output.buf.src[MaxChain].class
    /\ dsp.output.rate = 48000

\* The call applies one effect of the class, with a factor other than 1.0,
\* to a decoded input.
AppliesOne(class) ==
    /\ dsp.input.state = "complete"
    /\ Len(dsp.chain) = 1
    /\ dsp.chain[1].class = class
    /\ dsp.chain[1].factor # 10
    /\ \E enc \in Encodings : apply_effects_to_file(enc)

\* C23: a Pitch effect with a factor other than 1.0 returns, for every
\* input buffer however short, a buffer with the frames and the channels of
\* the input; it does not raise.
C23_PitchKeepsShape ==
    [][AppliesOne("PitchEffect")
        => /\ last'.res # "ValueError"
           /\ last'.res = "ok" => /\ dsp'.output.buf.n = dsp.input.buf.n
                                  /\ dsp'.output.buf.chans = dsp.input.buf.chans]_vars

\* round(len / factor), the factor in tenths.
RoundDiv(len, f) == (20 * len + f) \div (2 * f)

\* C24: a Speed effect with a factor other than 1.0 returns, for every
\* input of L frames, a buffer of round(L / speed) frames, give or take one,
\* with the channels of the input, and does not raise; speed 0.8 makes 55125
\* frames of 44100 mono frames.
C24_SpeedLength ==
    [][AppliesOne("SpeedEffect")
        => /\ last'.res # "ValueError"
           /\ last'.res = "ok"
              => /\ dsp'.output.buf.n - RoundDiv(dsp.input.buf.n, dsp.chain[1].factor)
                      \in {-1, 0, 1}
                 /\ dsp'.output.buf.chans = dsp.input.buf.chans
                 /\ (dsp.input.buf.n = 44100 /\ dsp.chain[1].factor = 8)
                    => dsp'.output.buf.n = 55125]_vars

\* C25: a Pitch or a Speed effect with factor 1.0 returns its input as it
\* is, frames, channels and sample values, for every input buffer.
C25_FactorOneIsIdentity ==
    [][(/\ dsp.input.state = "complete"
        /\ Len(dsp.chain) = 1
        /\ dsp.chain[1].factor = 10
        /\ \E enc \in Encodings : apply_effects_to_file(enc))
        => /\ last'.res # "ValueError"
           /\ last'.res = "ok" => dsp'.output.buf = dsp.input.buf]_vars

C25_Witness ==
    /\ last.op = "apply_effects"
    /\ last.res = "ok"
    /\ dsp.applied = <<Effect("PitchEffect", 10)>>
    /\ dsp.input.buf.n = 0
    /\ dsp.output.buf = dsp.input.buf

\* C26: constructing a Pitch or a Speed effect with a factor of zero or
\* below fails with the invalid-argument error (the code's ValueError) and
\* makes no object, so every effect that exists has a factor above zero;
\* SlowedEffect is a Speed effect of factor 0.8 and FastEffect one of 1.5.
C26_FactorPositive ==
    /\ [](\A i \in 1..Len(dsp.chain) : dsp.chain[i].factor > 0)
    /\ [][\A class \in EffectClasses, f \in FactorArgs :
            (f <= 0 /\ construct(class, f))
            => last'.res = "ValueError" /\ dsp' = dsp]_vars
    /\ [][\A name \in DOMAIN PresetFactor :
            (Returns /\ last'.op = name)
            => /\ last'.res = "ok"
               /\ dsp'.chain = Append(dsp.chain,
                                      Effect("SpeedEffect",
                                             IF name = "SlowedEffect" THEN 8 ELSE 15))]_vars

C26_Witness ==
    /\ last.op = "SpeedEffect"
    /\ last.res = "ValueError"
    /\ dsp.chain = <<Effect("SpeedEffect", 8)>>

\* The times trim must refuse: a start below zero, or an end not after it.
BadTimes(start, end) == start.num < 0 \/ end.num * start.den <= start.num * end.den

\* C27: trim with a start time below zero, or an end time not after the
\* start time, fails with the invalid-argument error (the code's ValueError)
\* whatever the input file, readable or not, and leaves the output path as
\* it was.
C27_BadTimesRefused ==
    [][\A start \in TrimTimes(TrimRate), end \in TrimTimes(TrimRate), enc \in Encodings :
        (BadTimes(start, end) /\ trim(start, end, enc))
        => /\ last'.res \in {NegativeStartError, EndNotAfterStartError}
           /\ dsp' = dsp]_vars

C27_Witness ==
    /\ last.op = "trim"
    /\ last.res = EndNotAfterStartError
    /\ dsp.input.state = "complete"
    /\ dsp.input.buf.n > 0
    /\ dsp.output = NoAudio

\* round(time * samplerate): the sample index nearest to the time.
RoundToSample(t, sr) == (2 * t.num * sr + t.den) \div (2 * t.den)

\* The call trims a decoded file with times that pass validation.
TrimsValid(start, end, enc) ==
    /\ ~BadTimes(start, end)
    /\ dsp.input.state = "complete"
    /\ trim(start, end, enc)

\* C28: with valid times, trim fails with the range error (the code's
\* ValueError "exceeds audio duration") and writes nothing exactly when the
\* sample index of the start time is at or beyond the number of frames of
\* the file; an end time beyond the duration of the file is no error.
C28_StartBeyondRefused ==
    [][\A start \in TrimTimes(TrimRate), end \in TrimTimes(TrimRate), enc \in Encodings :
        TrimsValid(start, end, enc)
        => IF RoundToSample(start, dsp.input.rate) >= dsp.input.buf.n
           THEN last'.res = StartBeyondEndError /\ dsp' = dsp
           ELSE last'.res \in {"ok", "EncodeError"}]_vars

\* C29: trim turns both times into sample indices with round(time *
\* samplerate), the nearest index, so a successful trim writes the frames
\* from the index nearest to the start time up to the index nearest to the
\* end time (or the end of the file).
C29_NearestSample ==
    [][\A start \in TrimTimes(TrimRate), end \in TrimTimes(TrimRate) :
        (TrimsValid(start, end, "ok") /\ last'.res = "ok")
        => LET first_sample == RoundToSample(start, dsp.input.rate)
               last_sample == RoundToSample(end, dsp.input.rate)
               upto == IF last_sample < dsp.input.buf.n THEN last_sample ELSE dsp.input.buf.n
           IN /\ dsp'.output.buf.lo = dsp.input.buf.lo + first_sample
              /\ dsp'.output.buf.n = upto - first_sample]_vars

\* C30: a successful trim writes the frames of the half-open range from
\* start_sample to the smaller of end_sample and the frame count, in the
\* order and at the sample rate of the input, and trimming from 0 to the
\* duration of the file writes as many frames as the file has.
C30_HalfOpenRange ==
    [][\A start \in TrimTimes(TrimRate), end \in TrimTimes(TrimRate) :
        (TrimsValid(start, end, "ok") /\ last'.res = "ok")
        => LET total == dsp.input.buf.n
               first_sample == ToSample(start, dsp.input.rate)
               last_sample == ToSample(end, dsp.input.rate)
               upto == IF last_sample < total THEN last_sample ELSE total
           IN /\ dsp'.output.state = "complete"
              /\ dsp'.output.rate = dsp.input.rate
              /\ dsp'.output.buf = [dsp.input.buf EXCEPT !.lo = @ + first_sample,
                                                         !.n = upto - first_sample]
              /\ (start = Frames(0, dsp.input.rate) /\ end = Frames(total, dsp.input.rate))
                 => dsp'.output.buf.n = total]_vars

\* C31: RecordingService.start_recording called while a recording is in
\* flight fails with the already-recording error (the code's RuntimeError)
\* and leaves the held category and recording id as they were; called
\* otherwise, when it returns it returns an id that was not held before,
\* holds that id and the category it was given, and the engine is recording.
C31_ServiceStart ==
    [][\A c \in SvcCategories, rid \in SvcRecIds, dev \in Devices :
        svc_start_recording(c, rid, dev)
        => IF recording_active
           THEN /\ last'.res = SvcAlreadyRecordingError
                /\ UNCHANGED <<current_category, current_recording_id>>
           ELSE last'.res = "ok"
                => /\ last'.value \in SvcRecIds \ {current_recording_id}
                   /\ current_recording_id' = last'.value
                   /\ current_category' = c
                   /\ recording_active']_vars

C31_Witness ==
    /\ last.op = "svc_start_recording"
    /\ last.res = "ok"
    /\ last.value = "s1"
    /\ current_recording_id = "s1"
    /\ current_category = "fx"
    /\ is_recording
    /\ \E p \in Paths : files[p].state = "complete"

\* RecordingService.stop_recording returns its Sound.
ServiceStopReturns ==
    /\ pc.at = "stop_recording_read"
    /\ pc.via = "service"
    /\ Returns
    /\ last'.res = "ok"

\* C32: a RecordingService.stop_recording that succeeds returns a Sound
\* whose category is the one the session holds since the matching
\* start_recording, whose file is the drawn file name in the folder of that
\* category and whose name is "Recording" with the first characters of that
\* recording's id; afterwards the session holds no category and no id.  From
\* the start of a recording to the return of its stop the held category and
\* id do not change.
C32_ServiceStopSound ==
    /\ [][ServiceStopReturns
            => /\ last'.value.category = current_category
               /\ last'.value.file_path = <<current_category, pc.path>>
               /\ last'.value.name =
                      <<"Recording", IF current_recording_id = "s1" THEN "s" ELSE "r">>
               /\ current_category' = None
               /\ current_recording_id' = None]_vars
    /\ [][((recording_active \/ pc.via = "service") /\ ~ServiceStopReturns)
            => UNCHANGED <<current_category, current_recording_id>>]_vars

C32_Witness ==
    /\ last.op = "svc_stop_recording"
    /\ last.res = "ok"
    /\ last.value = [file_path |-> <<"fx", "out.wav">>, category |-> "fx",
                     name |-> <<"Recording", "s">>]
    /\ current_category = None
    /\ current_recording_id = None
    /\ files["out.wav"].state = "complete"

\* C33: a start_recording in which the construction or the start of the
\* input stream fails ends with the device error and leaves the engine not
\* recording: is_recording() is false, the engine holds no stream, and the
\* start_recording that follows is not refused as already recording.
C33_FailedStartLeavesIdle ==
    /\ [][(Returns /\ last'.op = "start_recording" /\ last'.res = "PortAudioError")
            => /\ ~recording_active'
               /\ recording_stream' = NoStream]_vars
    /\ [][(last.op = "start_recording" /\ last.res = "PortAudioError"
             /\ Returns /\ last'.op = "start_recording")
            => last'.res # AlreadyRecordingError]_vars

\* C34: whenever no call is under way and is_recording() is false, the
\* RecordingService holds no recording: no recording id and no category,
\* also after a stop_recording or a start_recording that failed in the
\* engine.
C34_IdleSessionHoldsNothing ==
    (pc = Idle /\ ~recording_active)
        => /\ current_recording_id = None
           /\ current_category = None

\* The blocks of a are the first blocks of b.
IsPrefix(a, b) == Len(a) <= Len(b) /\ a = SubSeq(b, 1, Len(a))

\* C35: a recording holds no block captured during an earlier recording:
\* while a recording is active its buffer holds only blocks delivered since
\* its own start_recording, in their order, and a start_recording that is
\* not refused begins with an empty buffer, whatever the stop_recording
\* before it left behind and whether or not cleanup was called.
C35_NoBlockOfEarlierRecording ==
    /\ [](recording_active => IsPrefix(recording_buffer, delivered))
    /\ [][(~recording_active /\ Returns
             /\ last'.op \in {"start_recording", "svc_start_recording"})
            => recording_buffer' = <<>>]_vars

C35_Witness ==
    /\ recording_active
    /\ recording_buffer = <<(<<2, 1>>)>>
    /\ delivered = recording_buffer
    /\ last.op = "start_recording"
    /\ last.res = "ok"
    /\ ~mixer_init
    /\ \E p \in Paths : files[p].state = "partial"

\* Two hotkeys that are not empty and are the same key but for case.
SameKey(h1, h2) == h1 # "" /\ h2 # "" /\ (h1 = h2 \/ {h1, h2} = {"a", "A"})

\* C36: after any add_sound, update_sound_hotkey and remove_sound (and the
\* other operations on the board) no two sounds of the board hold the same
\* hotkey, compared without regard to case, unless it is empty; an add_sound
\* or update_sound_hotkey refused for a hotkey in use changes nothing.
C36_HotkeysUnique ==
    /\ [](\A i \in ClipIds, j \in ClipIds :
            (i # j /\ board.sounds[i].present /\ board.sounds[j].present)
            => ~SameKey(board.sounds[i].hotkey, board.sounds[j].hotkey))
    /\ [][(Returns /\ last'.op \in {"add_sound", "update_sound_hotkey"}
             /\ last'.res = HotkeyInUseError)
            => board' = board]_vars

\* How often an id is in a list.
RECURSIVE Count(_, _)
Count(list, x) ==
    IF list = <<>> THEN 0
    ELSE (IF Head(list) = x THEN 1 ELSE 0) + Count(Tail(list), x)

\* C37: after any operations on the board every sound of the board is
\* listed under exactly one category, once, and that is the category its
\* category field names; every id listed under a category is a sound of the
\* board.
C37_CategoriesIndexSounds ==
    /\ \A id \in ClipIds :
          board.sounds[id].present
          => \A c \in BoardCategories :
                Count(board.categories[c].ids, id)
                    = IF c = board.sounds[id].category THEN 1 ELSE 0
    /\ \A c \in BoardCategories :
          \A i \in 1..Len(board.categories[c].ids) :
             board.sounds[board.categories[c].ids[i]].present

\* C38: handling PlaySound for a sound that is on the board and whose file
\* decodes, with the mixer up, returns without error, leaves the clip loaded
\* and is_playing(sound.id) true, and (a channel being free) a Voice of the
\* sound plays once at the Sound's volume.
C38_PlaySoundPlays ==
    [][(Returns /\ last'.op = "PlaySound" /\ Registered(last'.id) /\ mixer_init
          /\ last'.res # "RuntimeError")
        => /\ last'.res = "ok"
           /\ playing_sounds'[last'.id].loaded
           /\ get_busy'
           /\ BusyCount < NumChannels
              => SoundingAs(channels', playing_sounds', last'.id, 0,
                            board.sounds[last'.id].volume) >= 1]_vars

\* C39: handling ApplyEffect for a sound on the board with any name of the
\* effect factory, the sound's file being readable and all writes and the
\* reload succeeding, returns without error with the sound's file_path set
\* to the new output file, the effect name among the sound's effects and the
\* clip loaded; with a name the factory does not have it fails with
\* ValueError and leaves the sound, the files and the engine as they were.
C39_ApplyEffectByName ==
    /\ [][(Returns /\ last'.op = "ApplyEffect" /\ Registered(last'.id)
             /\ last'.res \notin {UnknownEffectError, "DecodeError", "EncodeError",
                                   "RuntimeError", "ValueError"})
            => /\ last'.res = "ok"
               /\ board'.sounds[last'.id].file_path # board.sounds[last'.id].file_path
               /\ board'.sounds[last'.id].effects # <<>>
               /\ dsp'.output.state = "complete"
               /\ playing_sounds'[last'.id].loaded]_vars
    /\ [][(Returns /\ last'.op = "ApplyEffect" /\ last'.res = UnknownEffectError)
            => UNCHANGED <<board, dsp, playing_sounds, channels>>]_vars
====
